---- MODULE Spec2Model ----
(***************************************************************************)
(* Price alerts of the crypto bot (src/bot.py): the registry user_alerts,  *)
(* the /setalert handler set_alert_command, the lookup get_crypto_price    *)
(* and the periodic job alert_check.                                       *)
(*                                                                         *)
(* Everything runs on one asyncio event loop.  A coroutine runs without    *)
(* interruption from one `await` to the next, so the handler can run only  *)
(* while no pass is in flight or while the pass is suspended in            *)
(* `await context.bot.send_message(...)`.  The job queue does not start a  *)
(* pass while the previous one is still running.                           *)
(***************************************************************************)
EXTENDS Integers, Sequences, FiniteSets

(***************************************************************************)
(* Bounds of the model.                                                    *)
(***************************************************************************)
\* accepted registrations, all owners together
MaxRegs == 3
\* entry slots of the dict (live or deleted) before an insert compacts it
MaxEntries == 2

Owners == {1, 2}
Cryptos == {"bitcoin", "ethereum"}
\* what the price source can answer: below, at and above the one threshold a
\* user can type (PriceTokens)
Prices == {1, 2, 3}

(***************************************************************************)
(* Tokens a user can type after /setalert, and the two conversions the     *)
(* handler applies to them: str.lower() and float().                       *)
(***************************************************************************)
CryptoTokens == {"Bitcoin", "ethereum"}
ConditionTokens == {"above", "BELOW", "sideways"}
PriceTokens == {"2", "abc"}

Lower(tok) ==
    CASE tok = "Bitcoin" -> "bitcoin"
      [] tok = "BELOW" -> "below"
      [] OTHER -> tok

\* float(tok): a number, or ValueError
Float(tok) ==
    CASE tok = "2" -> [ok |-> TRUE, val |-> 2]
      [] OTHER -> [ok |-> FALSE, val |-> 0]

\* context.args: the first n of <crypto> <above|below> <price>
ArgLists ==
    { SubSeq(<<c, k, p>>, 1, n) :
        c \in CryptoTokens, k \in ConditionTokens, p \in PriceTokens, n \in 0..3 }

(***************************************************************************)
(* The dict user_alerts: entries in insertion order.  A deleted entry      *)
(* leaves an empty slot (Tomb) until an insert compacts the entries; the   *)
(* field gen is history, the number of the owner's registration that       *)
(* stored the entry.                                                       *)
(***************************************************************************)
Tomb == [uid |-> 0, crypto |-> "", threshold |-> 0, condition |-> "", gen |-> 0]

Live(d) == { i \in 1..Len(d) : d[i].uid # 0 }
Keys(d) == { d[i].uid : i \in Live(d) }
Used(d) == Cardinality(Live(d))
IndexOf(d, uid) == CHOOSE i \in Live(d) : d[i].uid = uid
Get(d, uid) == d[IndexOf(d, uid)]

RECURSIVE Compact(_)
Compact(d) ==
    IF d = <<>> THEN <<>>
    ELSE IF Head(d).uid = 0 THEN Compact(Tail(d))
    ELSE <<Head(d)>> \o Compact(Tail(d))

\* user_alerts[uid] = value: in place for a key that is present, else appended
SetItem(d, e, compact) ==
    IF e.uid \in Keys(d) THEN [d EXCEPT ![IndexOf(d, e.uid)] = e]
    ELSE IF compact THEN Append(Compact(d), e)
    ELSE Append(d, e)

\* Whether an insert of a new key compacts the entries depends on the room the
\* allocation has left, which the program does not control: either can happen
\* when there are deleted slots, and it must when MaxEntries slots are in use.
CompactChoices(d, uid) ==
    IF uid \in Keys(d) \/ Len(d) = Used(d) THEN {FALSE}
    ELSE IF Len(d) >= MaxEntries THEN {TRUE}
    ELSE BOOLEAN

\* a del that forgets to delete
DelItemNoop(d, uid) == d

\* del user_alerts[uid]
DelItem(d, uid) == [d EXCEPT ![IndexOf(d, uid)] = Tomb]

(***************************************************************************)
(* get_crypto_price: one HTTP request per call, then                       *)
(* data.get(crypto, {}).get(currency, 'Price not available').  alert_check  *)
(* calls it with the default currency 'usd', the only one modelled.        *)
(***************************************************************************)
NoBody == [c \in {} |-> 0]

\* what requests.get(...).json() can produce for ids=crypto
Responses(crypto) ==
    {[raised |-> TRUE, data |-> NoBody]}
    \cup {[raised |-> FALSE, data |-> NoBody]}
    \cup {[raised |-> FALSE, data |-> [c \in {crypto} |-> p]] : p \in Prices}

get_crypto_price(resp, crypto) ==
    IF resp.raised THEN [kind |-> "exception", val |-> 0]
    ELSE IF crypto \in DOMAIN resp.data
         THEN [kind |-> "price", val |-> resp.data[crypto]]
         ELSE [kind |-> "not_available", val |-> 0]

\* the comparison with >= and <= in place of > and <
ConditionHoldsNonStrict(condition, price, threshold) ==
    \/ condition = "above" /\ price >= threshold
    \/ condition = "below" /\ price =< threshold

\* the comparison with the 'below' branch forgotten
ConditionHoldsAboveOnly(condition, price, threshold) ==
    condition = "above" /\ price > threshold

\* line 169, for a numeric price
ConditionHolds(condition, price, threshold) ==
    \/ condition = "above" /\ price > threshold
    \/ condition = "below" /\ price < threshold

\* line 169 with price = 'Price not available': str > float raises TypeError
ConditionRaises(condition, res) ==
    res.kind = "not_available" /\ condition \in {"above", "below"}

VARIABLES
    user_alerts,  \* the registry
    pc,           \* alert_check: "idle", "iter" (running), "await_send", "done"
    di_pos,       \* the dict iterator: slots consumed
    di_used,      \* the dict iterator: size of the dict when it was created
    di_len,       \* the dict iterator: entries it still expects
    cur,          \* the loop variables of alert_check
    reply,        \* how set_alert_command ended in the step just taken: the reply
                  \* it sent, "ValueError" if it raised before any, else "none"
    gen,          \* history: accepted registrations per owner
    sent,         \* history: notifications delivered, per owner and registration
    http,         \* history: HTTP requests of this pass, per crypto
    log,          \* history: the alerts this pass evaluated, in order
    snap,         \* history: the alerts registered when this pass started
    retry         \* history: the alert the previous pass failed on (SpecRecorded)

vars == <<user_alerts, pc, di_pos, di_used, di_len, cur, reply, gen, sent, http, log, snap, retry>>

Init ==
    /\ user_alerts = <<>>
    /\ pc = "idle"
    /\ di_pos = 0
    /\ di_used = 0
    /\ di_len = 0
    /\ cur = Tomb
    /\ reply = "none"
    /\ gen = [u \in Owners |-> 0]
    /\ sent = [u \in Owners |-> [g \in 1..MaxRegs |-> 0]]
    /\ http = [c \in Cryptos |-> 0]
    /\ log = <<>>
    /\ snap = {}
    /\ retry = {}

\* the registrations accepted so far (the model stops accepting at MaxRegs)
RECURSIVE Sum(_, _)
Sum(f, S) == IF S = {} THEN 0 ELSE LET x == CHOOSE y \in S : TRUE IN f[x] + Sum(f, S \ {x})
Accepted == Sum(gen, Owners)

passVars == <<pc, di_pos, di_used, di_len, cur, http, log, snap, retry>>

(***************************************************************************)
(* set_price_alert and set_alert_command.                                  *)
(***************************************************************************)
set_price_alert(d, user_id, crypto, threshold_price, condition, g, compact) ==
    SetItem(d, [uid |-> user_id, crypto |-> crypto, threshold |-> threshold_price,
                condition |-> condition, gen |-> g], compact)

set_alert_command(user_id, args, compact) ==
    /\ pc \in {"idle", "await_send"}
    /\ IF Len(args) < 3
       THEN /\ reply' = "usage"
            /\ UNCHANGED <<user_alerts, gen>>
       ELSE LET crypto == Lower(args[1])
                condition == Lower(args[2])
                price == Float(args[3])
            IN  IF ~price.ok
                THEN \* ValueError leaves the handler: nothing is answered
                     /\ reply' = "ValueError"
                     /\ UNCHANGED <<user_alerts, gen>>
                ELSE IF condition \notin {"above", "below"}
                THEN /\ reply' = "specify"
                     /\ UNCHANGED <<user_alerts, gen>>
                ELSE /\ Accepted < MaxRegs
                     /\ gen' = [gen EXCEPT ![user_id] = @ + 1]
                     /\ user_alerts' = set_price_alert(user_alerts, user_id, crypto,
                                           price.val, condition, gen[user_id] + 1, compact)
                     /\ reply' = "alert_set"
    /\ UNCHANGED <<sent, passVars>>

(***************************************************************************)
(* alert_check.                                                            *)
(***************************************************************************)
\* history: the alerts in d, each named by owner and registration number
Ids(d) == { <<d[i].uid, d[i].gen>> : i \in Live(d) }
\* history: the alert a pass failed on, with the way it failed
Failed(l) ==
    { <<l[i].uid, l[i].gen, l[i].outcome>> :
        i \in { j \in 1..Len(l) : l[j].outcome \in {"raised", "send_failed"} } }

\* the job starts: for ... in user_alerts.items() creates the iterator
alert_check_start ==
    /\ pc = "idle"
    /\ pc' = "iter"
    /\ di_pos' = 0
    /\ di_used' = Used(user_alerts)
    /\ di_len' = Used(user_alerts)
    /\ snap' = Ids(user_alerts)
    /\ UNCHANGED <<user_alerts, cur, gen, sent, http, log, retry>>
    /\ reply' = "none"

\* the iterator's scan: the first live slot after the ones consumed
Rest(d, pos) == { i \in Live(d) : i > pos }
NextSlot(d, pos) == CHOOSE i \in Rest(d, pos) : \A j \in Rest(d, pos) : i =< j

\* history: one evaluation, with the lookup's result and the number of the HTTP
\* request that produced it
Entry(e, res, req, outcome) ==
    [uid |-> e.uid, crypto |-> e.crypto, threshold |-> e.threshold,
     condition |-> e.condition, gen |-> e.gen, res |-> res, req |-> req,
     outcome |-> outcome]

\* next() on the iterator finds the dict's size changed: RuntimeError ends the pass
alert_check_size_changed ==
    /\ pc = "iter"
    /\ Used(user_alerts) # di_used
    /\ pc' = "done"
    /\ UNCHANGED <<user_alerts, di_pos, di_used, di_len, cur, gen, sent, http, log, snap, retry>>
    /\ reply' = "none"

\* next() on the iterator finds no further entry: the loop and the pass end
alert_check_exhausted ==
    /\ pc = "iter"
    /\ Used(user_alerts) = di_used
    /\ Rest(user_alerts, di_pos) = {}
    /\ pc' = "done"
    /\ UNCHANGED <<user_alerts, di_pos, di_used, di_len, cur, gen, sent, http, log, snap, retry>>
    /\ reply' = "none"

\* next() on the iterator finds an entry after it has yielded as many as the
\* dict held when the loop began (a registration during an await made up for a
\* deletion): interpreters that count the entries raise RuntimeError here
alert_check_keys_changed ==
    /\ pc = "iter"
    /\ Used(user_alerts) = di_used
    /\ Rest(user_alerts, di_pos) # {}
    /\ di_len =< 0
    /\ pc' = "done"
    /\ UNCHANGED <<user_alerts, di_pos, di_used, di_len, cur, gen, sent, http, log, snap, retry>>
    /\ reply' = "none"

\* one iteration: lines 167-169, up to the await of line 170; with di_len =< 0
\* it is what an interpreter that does not count the entries does
alert_check_body ==
    /\ pc = "iter"
    /\ Used(user_alerts) = di_used
    /\ Rest(user_alerts, di_pos) # {}
    /\ LET i == NextSlot(user_alerts, di_pos)
           e == user_alerts[i]
           req == http[e.crypto] + 1
       IN  \E resp \in Responses(e.crypto) :
           LET res == get_crypto_price(resp, e.crypto) IN
           /\ di_pos' = i
           /\ di_len' = di_len - 1
           /\ cur' = e
           /\ http' = [http EXCEPT ![e.crypto] = req]
           /\ IF res.kind = "exception" \/ ConditionRaises(e.condition, res)
              THEN \* the exception leaves alert_check
                   /\ pc' = "done"
                   /\ log' = Append(log, Entry(e, res, req, "raised"))
              ELSE IF ConditionHolds(e.condition, res.val, e.threshold)
              THEN /\ pc' = "await_send"
                   /\ log' = Append(log, Entry(e, res, req, "awaiting"))
              ELSE /\ pc' = "iter"
                   /\ log' = Append(log, Entry(e, res, req, "skipped"))
    /\ UNCHANGED <<user_alerts, di_used, gen, sent, snap, retry>>
    /\ reply' = "none"

\* send_message returns: line 171 deletes the owner's entry
alert_check_sent ==
    /\ pc = "await_send"
    /\ sent' = [sent EXCEPT ![cur.uid][cur.gen] = @ + 1]
    /\ user_alerts' = DelItem(user_alerts, cur.uid)
    /\ log' = [log EXCEPT ![Len(log)].outcome = "sent"]
    /\ pc' = "iter"
    /\ UNCHANGED <<di_pos, di_used, di_len, cur, gen, http, snap, retry>>
    /\ reply' = "none"

\* send_message raises: the exception leaves alert_check before line 171
alert_check_send_failed ==
    /\ pc = "await_send"
    /\ log' = [log EXCEPT ![Len(log)].outcome = "send_failed"]
    /\ pc' = "done"
    /\ UNCHANGED <<user_alerts, di_pos, di_used, di_len, cur, gen, sent, http, snap, retry>>
    /\ reply' = "none"

\* alert_check returns, or its exception reaches the job queue, which keeps the
\* job scheduled: the coroutine's locals are gone.  failed is what the history
\* variable retry keeps of the pass.
Return(failed) ==
    /\ pc = "done"
    /\ pc' = "idle"
    /\ di_pos' = 0
    /\ di_used' = 0
    /\ di_len' = 0
    /\ cur' = Tomb
    /\ http' = [c \in Cryptos |-> 0]
    /\ log' = <<>>
    /\ snap' = {}
    /\ retry' = failed
    /\ UNCHANGED <<user_alerts, gen, sent>>
    /\ reply' = "none"

\* the return, keeping no history of the pass
alert_check_return == Return({})

\* the same return, keeping the alert the pass failed on for the properties
\* that follow it into the next pass
alert_check_return_recorded == Return(Failed(log))

\* the handler and the steps of a pass before its return
Steps ==
    \/ \E u \in Owners, a \in ArgLists :
          \E compact \in CompactChoices(user_alerts, u) : set_alert_command(u, a, compact)
    \/ alert_check_start
    \/ alert_check_size_changed
    \/ alert_check_exhausted
    \/ alert_check_keys_changed
    \/ alert_check_body
    \/ alert_check_sent
    \/ alert_check_send_failed

Next == Steps \/ alert_check_return

Spec == Init /\ [][Next]_vars

\* the same program, with the history of failed alerts kept from pass to pass
NextRecorded == Steps \/ alert_check_return_recorded

SpecRecorded == Init /\ [][NextRecorded]_vars

(***************************************************************************)
(* What the properties below read.                                         *)
(***************************************************************************)
Regs == 1..MaxRegs
LogIdx == 1..Len(log)

\* registration g of owner u is the entry of u in user_alerts
Registered(u, g) == u \in Keys(user_alerts) /\ Get(user_alerts, u).gen = g

\* the alert a log record evaluated is still the entry of its owner, field by field
Unchanged(r) ==
    /\ r.uid \in Keys(user_alerts)
    /\ Get(user_alerts, r.uid) =
          [uid |-> r.uid, crypto |-> r.crypto, threshold |-> r.threshold,
           condition |-> r.condition, gen |-> r.gen]

\* the condition as the specification states it, on the price a record fetched
Satisfied(r) ==
    /\ r.res.kind = "price"
    /\ \/ r.condition = "above" /\ r.res.val > r.threshold
       \/ r.condition = "below" /\ r.res.val < r.threshold

Evaluated(u, g) == { i \in LogIdx : log[i].uid = u /\ log[i].gen = g }

\* C1: an alert that is not registered again is notified at most once however
\* many passes run, and once its notification is delivered it is no longer in
\* user_alerts, so no later pass can fire it again.
ExactlyOnce ==
    \A u \in Owners, g \in Regs :
        /\ sent[u][g] =< 1
        /\ sent[u][g] = 1 => ~Registered(u, g)

\* an alert was notified in one pass, was not registered again, and a later
\* pass has run to its end over the other owner's alert without seeing it
ExactlyOnceWitness ==
    \E u \in Owners, g \in Regs :
        /\ sent[u][g] = 1
        /\ gen[u] = g
        /\ pc = "done"
        /\ <<u, g>> \notin snap
        /\ Evaluated(u, g) = {}
        /\ log # <<>>

\* C2: a fetched price that satisfies the alert's condition (strictly above, or
\* strictly below, the threshold) makes the pass send a notification to the
\* owner; once it is delivered the alert has exactly one notification and is
\* absent from user_alerts; a price equal to the threshold fires nothing.
FiresWhenSatisfied ==
    \A i \in LogIdx :
        LET r == log[i] IN
        /\ Satisfied(r) => r.outcome \in {"awaiting", "sent", "send_failed"}
        /\ Satisfied(r) /\ r.outcome = "sent" =>
              sent[r.uid][r.gen] = 1 /\ ~Registered(r.uid, r.gen)
        /\ r.res.kind = "price" /\ r.res.val = r.threshold => r.outcome = "skipped"

\* a pass has ended in which a 'below' alert fired and was notified
FiresWhenSatisfiedWitness ==
    /\ pc = "done"
    /\ \E i \in LogIdx :
          /\ Satisfied(log[i])
          /\ log[i].condition = "below"
          /\ log[i].outcome = "sent"

\* C3: a fetched price that does not satisfy the alert's condition sends no
\* notification for the alert, and the pass leaves its entry as it was (same
\* asset, threshold and comparison) unless its owner registered again.
UnsatisfiedUntouched ==
    \A i \in LogIdx :
        LET r == log[i] IN
        r.res.kind = "price" /\ ~Satisfied(r) =>
            /\ r.outcome = "skipped"
            /\ sent[r.uid][r.gen] = 0
            /\ gen[r.uid] = r.gen => Unchanged(r)

\* a pass has ended that fetched the threshold itself for an alert
UnsatisfiedUntouchedWitness ==
    /\ pc = "done"
    /\ \E i \in LogIdx :
          /\ log[i].res.kind = "price"
          /\ log[i].res.val = log[i].threshold
          /\ Unchanged(log[i])

\* C4: when the price fetch of one alert fails, every other alert registered
\* when the pass started (and not registered again since) is still evaluated
\* in that pass.
FetchFailureIsolated ==
    pc = "done" /\ (\E i \in LogIdx : log[i].outcome = "raised") =>
        \A id \in snap : gen[id[1]] = id[2] => Evaluated(id[1], id[2]) # {}

\* C5: an alert whose price fetch fails gets no notification and stays in
\* user_alerts, and the next pass evaluates it again (under SpecRecorded).
FetchFailureRetried ==
    /\ \A i \in LogIdx :
          log[i].outcome = "raised" =>
              sent[log[i].uid][log[i].gen] = 0 /\ log[i].uid \in Keys(user_alerts)
    /\ pc = "done" =>
          \A f \in retry :
              f[3] = "raised" /\ Registered(f[1], f[2]) => Evaluated(f[1], f[2]) # {}

\* C6: when a pass that evaluated an alert of an owner has ended and the owner
\* registered again in the meantime, the new registration is in user_alerts
\* unless it was itself notified.
RegistrationNotLost ==
    pc = "done" =>
        \A i \in LogIdx :
            LET u == log[i].uid IN
            gen[u] > log[i].gen /\ sent[u][gen[u]] = 0 => Registered(u, gen[u])

\* C7: an alert leaves user_alerts only after the notification for it was
\* delivered; an alert whose send_message failed stays in user_alerts, and the
\* next pass evaluates it again (under SpecRecorded).
DeleteOnlyAfterDelivery ==
    /\ \A u \in Owners :
          gen[u] >= 1 /\ ~Registered(u, gen[u]) => sent[u][gen[u]] >= 1
    /\ \A i \in LogIdx :
          log[i].outcome = "send_failed" =>
              Registered(log[i].uid, log[i].gen) \/ gen[log[i].uid] > log[i].gen
    /\ pc = "done" =>
          \A f \in retry :
              f[3] = "send_failed" /\ Registered(f[1], f[2]) => Evaluated(f[1], f[2]) # {}

\* C8: within one pass, once a lookup of an asset returned a price, a later
\* lookup of the same asset returns the same price and issues no new HTTP
\* request.
PriceLookupMemoized ==
    \A i \in LogIdx, j \in LogIdx :
        i < j /\ log[i].crypto = log[j].crypto /\ log[i].res.kind = "price" =>
            log[j].res = log[i].res /\ log[j].req = log[i].req

\* C9: a pass in which no fetch and no send failed evaluates every alert that
\* was registered when it started (and not registered again since) exactly
\* once, also when an earlier alert of the pass fired and was deleted.
PassCoversSnapshot ==
    pc = "done" /\ (\A i \in LogIdx : log[i].outcome \in {"skipped", "sent"}) =>
        \A id \in snap :
            gen[id[1]] = id[2] => Cardinality(Evaluated(id[1], id[2])) = 1

\* the three state invariants of C10
RegistryWellFormed ==
    /\ \A i \in Live(user_alerts), j \in Live(user_alerts) :
          user_alerts[i].uid = user_alerts[j].uid => i = j
    /\ \A i \in Live(user_alerts) :
          /\ user_alerts[i].gen = gen[user_alerts[i].uid]
          /\ user_alerts[i].condition \in {"above", "below"}

\* a request with fewer than three arguments or another comparison token
Malformed(args) == Len(args) < 3 \/ Lower(args[2]) \notin {"above", "below"}

\* C10: user_alerts holds at most one alert per owner, the owner's most
\* recent accepted registration, with comparison 'above' or 'below'; and a
\* request with fewer than three arguments or any other comparison token is
\* answered with a rejection and leaves user_alerts unchanged.
RegistryAndRejection ==
    /\ []RegistryWellFormed
    /\ [][\A u \in Owners, a \in ArgLists :
            (\E compact \in BOOLEAN : set_alert_command(u, a, compact)) /\ Malformed(a) =>
                reply' \in {"usage", "specify"} /\ user_alerts' = user_alerts]_vars

====
